---- MODULE Spec2Model ----
(***************************************************************************)
(* Neochicks WhatsApp bot (src/app.py): the dialogue router brain_reply,   *)
(* the session store SESS, the order store INVOICES and the confirmation   *)
(* pipeline, as a state machine.                                           *)
(*                                                                         *)
(* A request thread handles one inbound message.  Its in-memory work is    *)
(* one step; it gives up control only inside a blocking network call       *)
(* (send_email, upload_media_pdf, send_text, send_image, ...), so a        *)
(* handler is a short chain of steps cut at those calls.                   *)
(* Python text is modelled by TLA+ strings, dicts by functions whose       *)
(* DOMAIN is the set of keys present.                                      *)
(***************************************************************************)
EXTENDS Integers, Sequences, FiniteSets, TLC

VARIABLES SESS, INVOICES, tmp_pdf, now, thr, made, visit

vars == <<SESS, INVOICES, tmp_pdf, now, thr, made, visit>>

(***************************************************************************)
(* Text primitives (str.lower, str.strip, `in`, re.sub, re.search).        *)
(***************************************************************************)
LowerAlpha == "abcdefghijklmnopqrstuvwxyz"
UpperAlpha == "ABCDEFGHIJKLMNOPQRSTUVWXYZ"
DigitChars == {"0", "1", "2", "3", "4", "5", "6", "7", "8", "9"}
LetterChars == {SubSeq(LowerAlpha, i, i) : i \in 1..26}
SpaceChars == {" "}
WhiteChars == {" ", "\t", "\n"}
WordChars == LetterChars \cup DigitChars \cup {"_"}

At(s, i) == SubSeq(s, i, i)

IndexIn(alpha, ch) == IF \E i \in 1..Len(alpha) : At(alpha, i) = ch
                      THEN CHOOSE i \in 1..Len(alpha) : At(alpha, i) = ch
                      ELSE 0

LowerChar(ch) == IF IndexIn(UpperAlpha, ch) > 0 THEN At(LowerAlpha, IndexIn(UpperAlpha, ch)) ELSE ch
UpperChar(ch) == IF IndexIn(LowerAlpha, ch) > 0 THEN At(UpperAlpha, IndexIn(LowerAlpha, ch)) ELSE ch

RECURSIVE Lower(_)
Lower(s) == IF Len(s) = 0 THEN "" ELSE LowerChar(At(s, 1)) \o Lower(SubSeq(s, 2, Len(s)))

RECURSIVE LStrip(_)
LStrip(s) == IF Len(s) > 0 /\ At(s, 1) \in WhiteChars THEN LStrip(SubSeq(s, 2, Len(s))) ELSE s

RECURSIVE RStrip(_)
RStrip(s) == IF Len(s) > 0 /\ At(s, Len(s)) \in WhiteChars THEN RStrip(SubSeq(s, 1, Len(s) - 1)) ELSE s

Strip(s) == RStrip(LStrip(s))

\* re.sub(r"[^...]", "", s): keep the characters of the class, drop the others
RECURSIVE Keep(_, _)
Keep(s, class) == IF Len(s) = 0 THEN ""
                  ELSE (IF At(s, 1) \in class THEN At(s, 1) ELSE "") \o Keep(SubSeq(s, 2, Len(s)), class)

\* `k in s` on Python strings
Contains(s, k) == \E i \in 1..(Len(s) - Len(k) + 1) : SubSeq(s, i, i + Len(k) - 1) = k

AnyIn(s, ks) == \E k \in ks : Contains(s, k)

EndsWith(s, k) == Len(s) >= Len(k) /\ SubSeq(s, Len(s) - Len(k) + 1, Len(s)) = k

\* re.search(r"\bW\b", s) for a word W of word characters
WordMatch(s, w) ==
    \E i \in 1..(Len(s) - Len(w) + 1) :
        /\ SubSeq(s, i, i + Len(w) - 1) = w
        /\ (i = 1 \/ At(s, i - 1) \notin WordChars)
        /\ (i + Len(w) - 1 = Len(s) \/ At(s, i + Len(w)) \notin WordChars)

DigitVal(ch) == IndexIn("123456789", ch)

RECURSIVE ParseInt(_)
ParseInt(s) == IF Len(s) = 0 THEN 0 ELSE 10 * ParseInt(SubSeq(s, 1, Len(s) - 1)) + DigitVal(At(s, Len(s)))

\* re.search(r"([0-9]{2,5})", s): leftmost run of two digits, extended greedily to
\* at most five; -1 when there is no match
CapacityToken(s) ==
    LET starts == {i \in 1..(Len(s) - 1) : At(s, i) \in DigitChars /\ At(s, i + 1) \in DigitChars}
    IN IF starts = {} THEN -1
       ELSE LET i == CHOOSE a \in starts : \A b \in starts : a <= b
                run == {n \in 2..5 : i + n - 1 <= Len(s)
                                     /\ \A j \in i..(i + n - 1) : At(s, j) \in DigitChars}
                n == CHOOSE a \in run : \A b \in run : a >= b
            IN ParseInt(SubSeq(s, i, i + n - 1))

\* str.title(): upper-case every letter that does not follow a letter
RECURSIVE TitleFrom(_, _)
TitleFrom(s, prevLetter) ==
    IF Len(s) = 0 THEN ""
    ELSE LET ch == At(s, 1)
             isL == LowerChar(ch) \in LetterChars
         IN (IF isL /\ ~prevLetter THEN UpperChar(ch) ELSE IF isL THEN LowerChar(ch) ELSE ch)
            \o TitleFrom(SubSeq(s, 2, Len(s)), isL)

Title(s) == TitleFrom(s, FALSE)

\* number of whitespace-separated parts, len(s.split())
RECURSIVE CountParts(_, _)
CountParts(s, inWord) ==
    IF Len(s) = 0 THEN 0
    ELSE LET sp == At(s, 1) \in WhiteChars
         IN (IF ~sp /\ ~inWord THEN 1 ELSE 0) + CountParts(SubSeq(s, 2, Len(s)), ~sp)

\* " ".join(s.split())
RECURSIVE JoinParts(_, _)
JoinParts(s, pendingSpace) ==
    IF Len(s) = 0 THEN ""
    ELSE LET sp == At(s, 1) \in WhiteChars
         IN IF sp THEN JoinParts(SubSeq(s, 2, Len(s)), TRUE)
            ELSE (IF pendingSpace THEN " " ELSE "") \o At(s, 1) \o JoinParts(SubSeq(s, 2, Len(s)), FALSE)

\* s.split()[0] ("" when there is no part)
RECURSIVE FirstPart(_)
FirstPart(s) ==
    IF Len(s) = 0 \/ At(s, 1) \in WhiteChars THEN "" ELSE At(s, 1) \o FirstPart(SubSeq(s, 2, Len(s)))

(***************************************************************************)
(* Python dicts.                                                           *)
(***************************************************************************)
None == "None"

EmptyDict == [k \in {} |-> None]

Get(d, k, dflt) == IF k \in DOMAIN d THEN d[k] ELSE dflt

Put(d, k, v) == [x \in (DOMAIN d) \cup {k} |-> IF x = k THEN v ELSE d[x]]

Pop(d, ks) == [x \in (DOMAIN d) \ ks |-> d[x]]

(***************************************************************************)
(* Counties, delivery ETA, catalog.                                        *)
(***************************************************************************)
COUNTIES == {
    "baringo", "bomet", "bungoma", "busia", "elgeyo marakwet", "embu", "garissa", "homa bay", "isiolo",
    "kajiado", "kakamega", "kericho", "kiambu", "kilifi", "kirinyaga", "kisii", "kisumu", "kitui",
    "kwale", "laikipia", "lamu", "machakos", "makueni", "mandera", "marsabit", "meru", "migori", "mombasa",
    "murang'a", "muranga", "nairobi", "nakuru", "nandi", "narok", "nyamira", "nyandarua", "nyeri",
    "samburu", "siaya", "taita taveta", "tana river", "tharaka nithi", "trans nzoia", "turkana",
    "uasin gishu", "vihiga", "wajir", "west pokot" }

\* guess_county: the county named by the text, or None
guess_county(text) ==
    LET cleaned == Strip(Keep(Lower(text), LetterChars \cup SpaceChars))
    IN IF cleaned = "" THEN None
       ELSE IF cleaned \in COUNTIES THEN cleaned
       ELSE IF EndsWith(cleaned, " county")
                /\ Strip(SubSeq(cleaned, 1, Len(cleaned) - 7)) \in COUNTIES
            THEN Strip(SubSeq(cleaned, 1, Len(cleaned) - 7))
       ELSE IF CountParts(cleaned, FALSE) \in {2, 3} /\ JoinParts(cleaned, FALSE) \in COUNTIES
            THEN JoinParts(cleaned, FALSE)
       ELSE None

delivery_eta_text(county) ==
    LET key == IF county = "" THEN "" ELSE FirstPart(Lower(Strip(county)))
    IN IF key = "nairobi" THEN "same day" ELSE "24 hours"

Item(n, c, p, s, g) == [name |-> n, capacity |-> c, price |-> p, solar |-> s, free_gen |-> g]

CATALOG == <<
    Item("56 Eggs", 56, 13000, TRUE, FALSE),
    Item("64 Eggs", 64, 14000, TRUE, FALSE),
    Item("112 Eggs", 104, 19000, TRUE, FALSE),
    Item("128 Eggs", 128, 20000, TRUE, FALSE),
    Item("192 Eggs", 192, 28000, TRUE, FALSE),
    Item("204 Eggs", 204, 30000, TRUE, FALSE),
    Item("256 Eggs", 256, 33000, TRUE, FALSE),
    Item("264 Eggs", 264, 45000, FALSE, FALSE),
    Item("300 Eggs", 300, 52000, TRUE, FALSE),
    Item("350 Eggs", 350, 54000, TRUE, FALSE),
    Item("528 Eggs", 528, 63000, FALSE, TRUE),
    Item("616 Eggs", 616, 66000, FALSE, TRUE),
    Item("1056 Eggs", 1056, 80000, FALSE, TRUE),
    Item("1232 Eggs", 1232, 90000, FALSE, TRUE),
    Item("1584 Eggs", 1584, 115000, FALSE, TRUE),
    Item("2112 Eggs", 2112, 120000, FALSE, TRUE),
    Item("3520 Eggs", 3520, 180000, FALSE, TRUE),
    Item("5280Eggs", 5280, 240000, FALSE, TRUE) >>

\* "no product": find_by_capacity's None, and the `or {}` of the CONFIRM branch
NoItem == [k \in {} |-> None]

SortedCatalog == SortSeq(CATALOG, LAMBDA a, b : a.capacity < b.capacity)

\* a nearest-below match: the largest item the request covers
find_by_capacity_floor(cap) ==
    LET items == SortedCatalog
        fits == {i \in 1..Len(items) : items[i].capacity <= cap}
    IN IF fits # {} THEN items[CHOOSE i \in fits : \A j \in fits : i >= j]
       ELSE IF Len(items) > 0 THEN items[1]
       ELSE NoItem

\* find_by_capacity: first item, in ascending capacity, that covers cap; else the largest
find_by_capacity(cap) ==
    LET items == SortedCatalog
        fits == {i \in 1..Len(items) : items[i].capacity >= cap}
    IN IF fits # {} THEN items[CHOOSE i \in fits : \A j \in fits : i <= j]
       ELSE IF Len(items) > 0 THEN items[Len(items)]
       ELSE NoItem

Max2(a, b) == IF a > b THEN a ELSE b

Min2(a, b) == IF a < b THEN a ELSE b

\* a page cut without clamping the page number
price_page_text_unclamped(page, per_page) ==
    LET items == SortedCatalog
        total == Len(items)
        pages == Max2(1, (total + per_page - 1) \div per_page)
        start == (page - 1) * per_page
    IN [page |-> page, pages |-> pages,
        chunk |-> SubSeq(items, Max2(1, start + 1), Min2(start + per_page, total))]

\* price_page_text: the page shown and the items listed on it
price_page_text(page, per_page) ==
    LET items == SortedCatalog
        total == Len(items)
        pages == Max2(1, (total + per_page - 1) \div per_page)
        pg == Max2(1, Min2(page, pages))
        start == (pg - 1) * per_page
    IN [page |-> pg, pages |-> pages,
        chunk |-> SubSeq(items, start + 1, Min2(start + per_page, total))]

PER_PAGE == 20

\* price_page_text: the page number actually shown for a requested page
price_page_shown(page) ==
    LET total == Len(SortedCatalog)
        pages == IF (total + PER_PAGE - 1) \div PER_PAGE > 1 THEN (total + PER_PAGE - 1) \div PER_PAGE ELSE 1
        lo == IF page < pages THEN page ELSE pages
    IN IF lo > 1 THEN lo ELSE 1

(***************************************************************************)
(* brain_reply: what the router computes from the message text alone.      *)
(***************************************************************************)
CANCEL_WORDS == {"cancel", "stop", "abort", "start over", "back to menu", "main menu", "menu"}
INCUBATOR_PHRASES == {"eggs incubator", "egg incubators", "eggs incubators"}
EGGS_PHRASES == {"fertile eggs", "fertilised eggs", "fertilized eggs", "kienyeji eggs",
                 "eggs for incubation", "incubation eggs"}
EGGS_PHRASES_MENU == {"fertile eggs", "fertilised eggs", "fertilized eggs", "kienyeji eggs",
                      "eggs for incubation"}
CAGES_PHRASES == {"cage", "cages", "battery cage", "layers cage"}
GREETINGS == {"", "hi", "hello", "start", "want", "incubator", "need an incubator", "hi neochicks",
              "good morning", "good afternoon"}
AGENT_WORDS == {"talk to an agent", "speak to an agent", "agent", "human", "representative",
                "talk to a rep", "customer care", "customer support"}
ISSUE_WORDS == {"troubleshoot", "hatch rate", "problem", "fault", "issue", "issues", "help with incubator"}
PRICE_WORDS == {"capacities", "capacity", "capacities with prices", "prices", "price", "bei", "gharama"}

Parse(text) ==
    LET t == Strip(text)
        low == Lower(t)
        digits == Keep(low, DigitChars)
        phone == Keep(t, DigitChars \cup {"+", " "})
        county == Strip(Keep(low, LetterChars \cup SpaceChars))
        cap == CapacityToken(low)
        c_guess == guess_county(low)
    IN [ t |-> t,
         low |-> low,
         digits |-> digits,
         cancel |-> AnyIn(low, CANCEL_WORDS),
         yes |-> low \in {"yes", "y", "confirm", "ok"},
         no |-> low \in {"no", "n", "back"},
         incubator |-> AnyIn(low, INCUBATOR_PHRASES),
         eggs |-> AnyIn(low, EGGS_PHRASES),
         is_chicks |-> WordMatch(low, "chick") \/ WordMatch(low, "chicks"),
         cages |-> AnyIn(low, CAGES_PHRASES),
         greeting |-> low \in GREETINGS,
         photo |-> Contains(low, "photo") \/ Contains(low, "photos"),
         exit_menu |-> low \in {"menu", "main menu", "back"},
         is_eggs |-> AnyIn(low, EGGS_PHRASES_MENU),
         agent |-> AnyIn(low, AGENT_WORDS),
         issue |-> Contains(low, "incubator issues") \/ AnyIn(low, ISSUE_WORDS),
         price |-> AnyIn(low, PRICE_WORDS),
         next |-> low \in {"next", "more"},
         back |-> low \in {"back", "prev", "previous"},
         cap |-> cap,
         delivery |-> Contains(low, "delivery") \/ Contains(low, "deliver") \/ Contains(low, "delivery terms"),
         county |-> county,
         name |-> Strip(t),
         phone |-> phone,
         phone_digits |-> Len(Keep(phone, DigitChars)),
         edit |-> Contains(low, "edit"),
         choice |-> Strip(Keep(low, DigitChars \cup LetterChars \cup SpaceChars)),
         confirm |-> Strip(low) = "confirm",
         c_guess |-> c_guess,
         \* values the handlers derive from the text alone
         county_title |-> Title(county),
         county_eta |-> delivery_eta_text(county),
         guess_title |-> Title(c_guess),
         guess_eta |-> delivery_eta_text(c_guess),
         product |-> IF cap = -1 THEN NoItem ELSE find_by_capacity(cap) ]

(***************************************************************************)
(* Sessions.                                                               *)
(***************************************************************************)
Fresh == [state |-> None, page |-> 1]

NON_INTERRUPT == {"await_name", "await_phone", "await_confirm",
                  "edit_menu", "edit_name", "edit_phone", "edit_county", "edit_model",
                  "cancel_confirm", "await_county"}

RESUMABLE == {"await_confirm", "edit_menu", "edit_name", "edit_phone", "edit_county", "edit_model"}

St(sess) == Get(sess, "state", None)

Reply(tag) == [text |-> tag]

NoReply == EmptyDict

Done(sess, reply) == [kind |-> "done", sess |-> sess, reply |-> reply]

\* the three photo branches block in send_text / send_image before they touch SESS
Photos(sess, menu) == [kind |-> "photos", sess |-> sess, menu |-> menu]

\* the confirmation branch blocks in send_email before it touches INVOICES and SESS
Confirming(sess) == [kind |-> "confirm", sess |-> sess]

\* dict.update: the keys of upd set in sess
With(sess, upd) == [k \in (DOMAIN sess) \cup (DOMAIN upd) |-> IF k \in DOMAIN upd THEN upd[k] ELSE sess[k]]

(***************************************************************************)
(* brain_reply, rule by rule in source order.  Each rule either returns or *)
(* falls through to the next one; the rules are listed last to first       *)
(* because a definition must precede its use.                              *)
(***************************************************************************)

\* Fallback: show the main menu again
\* a fallback that re-prompts and keeps the session
FallbackRule_KeepsSession(x, sess) == Done(sess, Reply("fallback_menu"))

FallbackRule(x, sess) == Done(Fresh, Reply("fallback_menu"))

\* County guess (stateless helper)
CountyGuessRule(x, sess) ==
    IF x.c_guess # None
    THEN Done(With(sess, [last_county |-> x.guess_title,
                          last_eta |-> x.guess_eta,
                          state |-> "await_name"]),
              Reply("county_eta_ask_name"))
    ELSE FallbackRule(x, sess)

\* CONFIRM guard
\* the guard without its test of the phase
IsConfirmation_AnyPhase(x, sess) == x.confirm

IsConfirmation(x, sess) == St(sess) = "await_confirm" /\ x.confirm

ConfirmRule(x, sess) ==
    IF IsConfirmation(x, sess) THEN Confirming(sess) ELSE CountyGuessRule(x, sess)

\* EDIT FLOW
EditModelRule(x, sess) ==
    IF St(sess) = "edit_model"
    THEN IF x.cap = -1 THEN Done(sess, Reply("ask_capacity_number"))
         ELSE IF x.product = NoItem THEN Done(sess, Reply("capacity_not_found"))
         ELSE Done(With(sess, [last_product |-> x.product, state |-> "await_confirm"]),
                   Reply("proforma"))
    ELSE ConfirmRule(x, sess)

\* an edit of the county that leaves the delivery estimate as it was
EditCountyRule_KeepsEta(x, sess) ==
    IF St(sess) = "edit_county"
    THEN IF x.county = "" THEN Done(sess, Reply("ask_county"))
         ELSE Done(With(sess, [last_county |-> x.county_title, state |-> "await_confirm"]),
                   Reply("proforma"))
    ELSE EditModelRule(x, sess)

EditCountyRule(x, sess) ==
    IF St(sess) = "edit_county"
    THEN IF x.county = "" THEN Done(sess, Reply("ask_county"))
         ELSE Done(With(sess, [last_county |-> x.county_title,
                               last_eta |-> x.county_eta,
                               state |-> "await_confirm"]),
                   Reply("proforma"))
    ELSE EditModelRule(x, sess)

EditPhoneRule(x, sess) ==
    IF St(sess) = "edit_phone"
    THEN IF x.phone_digits < 9 THEN Done(sess, Reply("phone_short"))
         ELSE Done(With(sess, [customer_phone |-> x.phone, state |-> "await_confirm"]), Reply("proforma"))
    ELSE EditCountyRule(x, sess)

EditNameRule(x, sess) ==
    IF St(sess) = "edit_name"
    THEN IF Len(x.name) < 2 THEN Done(sess, Reply("name_short"))
         ELSE Done(With(sess, [customer_name |-> x.name, state |-> "await_confirm"]), Reply("proforma"))
    ELSE EditPhoneRule(x, sess)

EditMenuRule(x, sess) ==
    IF St(sess) = "edit_menu"
    THEN IF x.choice \in {"1", "name"} THEN Done(With(sess, [state |-> "edit_name"]), Reply("ask_new_name"))
         ELSE IF x.choice \in {"2", "phone"} THEN Done(With(sess, [state |-> "edit_phone"]), Reply("ask_new_phone"))
         ELSE IF x.choice \in {"3", "county"} THEN Done(With(sess, [state |-> "edit_county"]), Reply("ask_new_county"))
         ELSE IF x.choice \in {"4", "model", "capacity"}
              THEN Done(With(sess, [state |-> "edit_model"]), Reply("ask_new_capacity"))
         ELSE Done(sess, Reply("ask_choice_1_to_4"))
    ELSE EditNameRule(x, sess)

EditRequestRule(x, sess) ==
    IF St(sess) = "await_confirm" /\ x.edit
    THEN Done(With(sess, [state |-> "edit_menu"]), Reply("edit_menu"))
    ELSE EditMenuRule(x, sess)

\* DELIVERY -> COUNTY -> NAME -> PHONE -> PRO-FORMA
AwaitPhoneRule(x, sess) ==
    IF St(sess) = "await_phone"
    THEN IF x.phone_digits < 9 THEN Done(sess, Reply("phone_short"))
         ELSE Done(With(sess, [customer_phone |-> x.phone, state |-> "await_confirm"]), Reply("proforma"))
    ELSE EditRequestRule(x, sess)

\* a router that tries the county shortcut before the checkout and edit handlers
AwaitNameRule_ZoneFirst(x, sess) ==
    IF x.c_guess # None THEN CountyGuessRule(x, sess)
    ELSE IF St(sess) = "await_name"
    THEN IF Len(x.name) < 2 THEN Done(sess, Reply("ask_full_name"))
         ELSE Done(With(sess, [customer_name |-> x.name, state |-> "await_phone"]), Reply("ask_phone"))
    ELSE AwaitPhoneRule(x, sess)

AwaitNameRule(x, sess) ==
    IF St(sess) = "await_name"
    THEN IF Len(x.name) < 2 THEN Done(sess, Reply("ask_full_name"))
         ELSE Done(With(sess, [customer_name |-> x.name, state |-> "await_phone"]), Reply("ask_phone"))
    ELSE AwaitPhoneRule(x, sess)

AwaitCountyRule(x, sess) ==
    IF St(sess) = "await_county"
    THEN IF x.county = "" THEN Done(sess, Reply("ask_county"))
         ELSE Done(With(sess, [last_county |-> x.county_title,
                               last_eta |-> x.county_eta,
                               state |-> "await_name"]),
                   Reply("county_eta_ask_name"))
    ELSE AwaitNameRule(x, sess)

DeliveryRule(x, sess) ==
    IF x.delivery THEN Done(sess, Reply("delivery_terms")) ELSE AwaitCountyRule(x, sess)

\* a capacity look-up that also turns the price list back to its first page
PricesCapacityRule_TurnsBack(x, sess) ==
    IF St(sess) = "prices" /\ x.cap # -1 /\ x.product # NoItem
    THEN Done(With(sess, [last_product |-> x.product, page |-> 1]),
              [text |-> "item_detail", item |-> x.product.capacity])
    ELSE DeliveryRule(x, sess)

\* INCUBATOR PRICES FLOW
PricesCapacityRule(x, sess) ==
    IF St(sess) = "prices" /\ x.cap # -1 /\ x.product # NoItem
    THEN Done(With(sess, [last_product |-> x.product]),
              [text |-> "item_detail", item |-> x.product.capacity])
    ELSE DeliveryRule(x, sess)

PricesBackRule(x, sess) ==
    IF St(sess) = "prices" /\ x.back
    THEN LET pg == IF sess["page"] - 1 > 1 THEN sess["page"] - 1 ELSE 1
         IN Done(With(sess, [page |-> pg]), [text |-> "price_page", page |-> price_page_shown(pg)])
    ELSE PricesCapacityRule(x, sess)

PricesNextRule(x, sess) ==
    IF St(sess) = "prices" /\ x.next
    THEN Done(With(sess, [page |-> sess["page"] + 1]),
              [text |-> "price_page", page |-> price_page_shown(sess["page"] + 1)])
    ELSE PricesBackRule(x, sess)

PricesRule(x, sess) ==
    IF x.price
    THEN Done(With(sess, [state |-> "prices", page |-> 1]), [text |-> "price_page", page |-> price_page_shown(1)])
    ELSE PricesNextRule(x, sess)

\* INCUBATOR ISSUES
IssuesRule(x, sess) ==
    IF x.issue THEN Done(With(sess, [state |-> None]), Reply("troubleshooting")) ELSE PricesRule(x, sess)

\* AGENT
AgentRule(x, sess) ==
    IF x.agent THEN Done(Fresh, Reply("agent_handoff")) ELSE IssuesRule(x, sess)

\* cages_menu: photos
CagesMenuRule(x, sess) ==
    IF St(sess) = "cages_menu" /\ x.photo THEN Photos(sess, "cages_menu") ELSE AgentRule(x, sess)

\* eggs_menu: photos, exit, cages
EggsMenuRule(x, sess) ==
    IF St(sess) = "eggs_menu"
    THEN IF x.photo THEN Photos(sess, "eggs_menu")
         ELSE IF x.exit_menu THEN Done(Fresh, Reply("main_menu"))
         ELSE IF x.digits = "4" \/ x.cages THEN Done(With(sess, [state |-> "cages_menu"]), Reply("cages_text"))
         ELSE CagesMenuRule(x, sess)
    ELSE CagesMenuRule(x, sess)

\* chicks_menu: photos, exit, fertile eggs
ChicksMenuRule(x, sess) ==
    IF St(sess) = "chicks_menu"
    THEN IF x.photo THEN Photos(sess, "chicks_menu")
         ELSE IF x.exit_menu THEN Done(Fresh, Reply("main_menu"))
         ELSE IF x.digits = "3" \/ x.is_eggs THEN Done(With(sess, [state |-> "eggs_menu"]), Reply("fertile_eggs_text"))
         ELSE EggsMenuRule(x, sess)
    ELSE EggsMenuRule(x, sess)

\* TOP-LEVEL NUMBERED MAIN MENU (idle)
IdleNumericRule(x, sess) ==
    IF St(sess) = None
    THEN IF x.digits = "1"
         THEN Done(With(sess, [state |-> "prices", page |-> 1]), [text |-> "price_page", page |-> price_page_shown(1)])
         ELSE IF x.digits = "2" \/ x.is_chicks
         THEN Done(With(sess, [state |-> "chicks_menu"]), Reply("chicks_info_text"))
         ELSE ChicksMenuRule(x, sess)
    ELSE ChicksMenuRule(x, sess)

\* MAIN MENU (first interaction)
MainMenuRule(x, sess) ==
    IF x.greeting /\ St(sess) = None THEN Done(sess, Reply("main_menu")) ELSE IdleNumericRule(x, sess)

\* GLOBAL JUMP SHORTCUTS
GlobalJumpAllowed(sess) == St(sess) \notin NON_INTERRUPT

GlobalJumpRule(x, sess) ==
    IF GlobalJumpAllowed(sess)
    THEN IF x.digits = "1" \/ x.incubator
         THEN Done(With(sess, [state |-> "prices"]), Reply("incubator_text"))
         ELSE IF x.digits = "3" \/ x.eggs
         THEN Done(With(sess, [state |-> "eggs_menu"]), Reply("fertile_eggs_text"))
         ELSE IF x.digits = "2" \/ x.is_chicks
         THEN Done(With(sess, [state |-> "chicks_menu"]), Reply("chicks_info_text"))
         ELSE IF x.digits = "4" \/ x.cages
         THEN Done(With(sess, [state |-> "cages_menu"]), Reply("cages_text"))
         ELSE MainMenuRule(x, sess)
    ELSE MainMenuRule(x, sess)

\* a negative answer that drops the phase it should restore
CancelConfirmRule_NoForgets(x, sess) ==
    IF St(sess) = "cancel_confirm"
    THEN IF x.yes THEN Done(Fresh, Reply("cancelled_main_menu"))
         ELSE IF x.no THEN Done(With(sess, [state |-> None]), Reply("continue"))
         ELSE GlobalJumpRule(x, sess)
    ELSE GlobalJumpRule(x, sess)

\* CANCEL flow: resolve yes / no while in cancel_confirm
CancelConfirmRule(x, sess) ==
    IF St(sess) = "cancel_confirm"
    THEN IF x.yes THEN Done(Fresh, Reply("cancelled_main_menu"))
         ELSE IF x.no
         THEN LET prev == Get(sess, "prev_state", None)
              IN Done(With(sess, [state |-> prev]),
                      Reply(IF prev \in RESUMABLE THEN "resume_proforma" ELSE "continue"))
         ELSE GlobalJumpRule(x, sess)
    ELSE GlobalJumpRule(x, sess)

\* a cancel word that asks for confirmation in every phase
CancelRule_AnyPhase(x, sess) ==
    IF x.cancel /\ St(sess) # "cancel_confirm"
    THEN Done(With(sess, [prev_state |-> St(sess), state |-> "cancel_confirm"]), Reply("cancel_are_you_sure"))
    ELSE CancelConfirmRule(x, sess)

\* CANCEL flow: a cancel word in an order / edit state asks for confirmation
CancelRule(x, sess) ==
    IF x.cancel /\ St(sess) \in NON_INTERRUPT /\ St(sess) # "cancel_confirm"
    THEN Done(With(sess, [prev_state |-> St(sess), state |-> "cancel_confirm"]), Reply("cancel_are_you_sure"))
    ELSE CancelConfirmRule(x, sess)

\* a router whose name edit keeps asking, whatever is typed
brain_reply_EditNameSticks(x, sess) ==
    IF St(sess) = "edit_name" THEN Done(sess, Reply("edit_ask_name")) ELSE CancelRule(x, sess)

\* brain_reply up to its first blocking call, on the parsed text x and the
\* session SESS.setdefault(from_wa, fresh) returned
brain_reply(x, sess) == CancelRule(x, sess)

(***************************************************************************)
(* Order assembly and the order store.                                     *)
(***************************************************************************)
INVOICE_TTL_MIN == 1440

WINDOW_S == 60 * INVOICE_TTL_MIN

\* new_order_id: "NEO-" and the UTC clock at second precision
new_order_id(ts) == <<"NEO", ts>>

\* the order dict built by the CONFIRM branch
MakeOrder(sess, from_wa, ts) ==
    LET p == Get(sess, "last_product", NoItem)
        county == Get(sess, "last_county", "-")
    IN [ id |-> new_order_id(ts),
         wa_from |-> from_wa,
         customer_name |-> Get(sess, "customer_name", ""),
         customer_phone |-> Get(sess, "customer_phone", ""),
         county |-> county,
         model |-> Get(p, "name", ""),
         capacity |-> Get(p, "capacity", 0),
         price |-> Get(p, "price", 0),
         eta |-> Get(sess, "last_eta", delivery_eta_text(county)),
         created_at_utc |-> ts ]

\* an expiry test that already drops an order whose age equals the window
Expired_AtWindow(o, ts) == (ts - o.created_at_utc) >= WINDOW_S

Expired(o, ts) == (ts - o.created_at_utc) > WINDOW_S

\* a sweep with no retention window: it drops every order, the new one too
cleanup_invoices_NoWindow(inv, ts) == Pop(inv, {oid \in DOMAIN inv : ts - inv[oid].created_at_utc >= 0})

\* _cleanup_invoices(now)
cleanup_invoices(inv, ts) == Pop(inv, {oid \in DOMAIN inv : Expired(inv[oid], ts)})

\* the delivery cascade: the channel calls made, in order, for the given outcomes
Cascade(upload_ok, by_id_ok, link_ok) ==
    IF upload_ok
    THEN IF by_id_ok THEN <<"upload", "by_id">>
         ELSE IF link_ok THEN <<"upload", "by_id", "link">>
         ELSE <<"upload", "by_id", "link", "text">>
    ELSE IF link_ok THEN <<"upload", "link">>
         ELSE <<"upload", "link", "text">>

\* the outcomes of those calls, in the same order
CascadeOks(upload_ok, by_id_ok, link_ok, text_ok) ==
    IF upload_ok
    THEN IF by_id_ok THEN <<TRUE, TRUE>>
         ELSE IF link_ok THEN <<TRUE, FALSE, TRUE>>
         ELSE <<TRUE, FALSE, FALSE, text_ok>>
    ELSE IF link_ok THEN <<FALSE, TRUE>>
         ELSE <<FALSE, FALSE, text_ok>>

(***************************************************************************)
(* Inbound messages: the texts customers send, parsed once.                *)
(***************************************************************************)
CheckoutTexts == {"prices", "528", "nairobi", "Jane Wanjiku", "0712345678", " Confirm "}

RaceTexts == {"nairobi", "Jane Wanjiku", "0712345678", "confirm"}

DialogTexts == {"prices", "528", "nairobi", "Jane Price", "0712345678", "edit", "name", "2", "photos",
                "agent", "delivery", "problem", "cancel", "cancel agent", "yes", "no", "xyz"}

BrowseTexts == {"prices", "next", "back", "1", "528", "600", "xyz", "problem", "nairobi", "Jane Wanjiku"}

ZoneTexts == {"nairobi", "xyz", "0712345678", "edit", "3", "4", "confirm"}

AllTexts == CheckoutTexts \cup RaceTexts \cup DialogTexts \cup BrowseTexts \cup ZoneTexts

Parsed == [text \in AllTexts |-> Parse(text)]

(***************************************************************************)
(* Request threads.                                                        *)
(***************************************************************************)
MaxPage == 2
MaxOrders == 2
MaxSecs == 1
MaxWindows == 1

Idle == [pc |-> "idle"]

\* a reset that drops the customer's session from the store
ResetSession_Forgets(S, from_wa) == Pop(S, {from_wa})

\* a reset that clears the whole store
ResetEverySession(S, from_wa) == [c \in DOMAIN S \cup {from_wa} |-> Fresh]

\* SESS[from_wa] = {"state": None, "page": 1}
ResetSession(S, from_wa) == Put(S, from_wa, Fresh)

\* the ghost count of orders and staff mails of the present visit to await_confirm
NoVisit == [orders |-> 0, mails |-> 0]

VisitAfter(v, was, r) ==
    IF r.kind = "confirm" THEN [v EXCEPT !.orders = @ + 1]
    ELSE IF r.kind = "done" /\ St(r.sess) = "await_confirm" /\ was # "await_confirm" THEN NoVisit
    ELSE v

\* webhook: take the message, run brain_reply up to its first blocking call
Begin(w, from_wa, text) ==
    LET sess == Get(SESS, from_wa, Fresh)
        r == brain_reply(Parsed[text], sess)
        me == [from |-> from_wa, text |-> text, was |-> St(sess)]
    IN /\ thr[w].pc = "idle"
       /\ r.sess["page"] <= MaxPage
       /\ r.kind = "confirm" => made < MaxOrders
       /\ SESS' = Put(SESS, from_wa, r.sess)
       /\ thr' = [thr EXCEPT ![w] =
                    IF r.kind = "done" THEN With(me, [pc |-> "reply", reply |-> r.reply, status |-> "ok"])
                    ELSE IF r.kind = "photos" THEN With(me, [pc |-> "photos", menu |-> r.menu])
                    ELSE With(me, [pc |-> "mail", order |-> MakeOrder(sess, from_wa, now)])]
       /\ made' = IF r.kind = "confirm" THEN made + 1 ELSE made
       /\ visit' = Put(visit, from_wa, VisitAfter(Get(visit, from_wa, NoVisit), St(sess), r))
       /\ UNCHANGED <<INVOICES, tmp_pdf, now>>

\* CONFIRM: send_email returned; store the order, render and write the PDF, sweep;
\* then block in upload_media_pdf
EmailReturns(w, mail, render_ok) ==
    LET o == thr[w].order
    IN /\ thr[w].pc = "mail"
       /\ INVOICES' = cleanup_invoices(Put(INVOICES, o.id, o), now)
       /\ tmp_pdf' = IF render_ok THEN tmp_pdf \cup {o.id} ELSE tmp_pdf
       /\ thr' = [thr EXCEPT ![w] = With(@, [pc |-> "upload", mail |-> mail])]
       /\ visit' = IF mail = "sent"
                   THEN Put(visit, thr[w].from, [Get(visit, thr[w].from, NoVisit) EXCEPT !.mails = @ + 1])
                   ELSE visit
       /\ UNCHANGED <<SESS, now, made>>

\* a cascade whose last fallback, the plain text, is not guarded: its failure
\* escapes to webhook before the reset
Delivered_TextSendRaises(w, upload_ok, by_id_ok, link_ok, text_ok) ==
    LET raised == ~(upload_ok /\ by_id_ok) /\ ~link_ok /\ ~text_ok
    IN /\ thr[w].pc = "upload"
       /\ SESS' = IF raised THEN SESS ELSE ResetSession(SESS, thr[w].from)
       /\ thr' = [thr EXCEPT ![w] = With(@, [pc |-> "reply",
                                             reply |-> IF raised THEN NoReply ELSE Reply("order_confirmed"),
                                             status |-> IF raised THEN "error" ELSE "ok",
                                             sent |-> Cascade(upload_ok, by_id_ok, link_ok),
                                             last_ok |-> ~raised])]
       /\ UNCHANGED <<INVOICES, tmp_pdf, now, made, visit>>

\* a delivery that tries every channel, whatever the earlier ones did
Delivered_EveryChannel(w, upload_ok, by_id_ok, link_ok, text_ok) ==
    /\ thr[w].pc = "upload"
    /\ SESS' = ResetSession(SESS, thr[w].from)
    /\ thr' = [thr EXCEPT ![w] = With(@, [pc |-> "reply", reply |-> Reply("order_confirmed"), status |-> "ok",
                                          sent |-> <<"upload", "by_id", "link", "text">>,
                                          oks |-> <<upload_ok, by_id_ok, link_ok, text_ok>>,
                                          last_ok |-> text_ok])]
    /\ UNCHANGED <<INVOICES, tmp_pdf, now, made, visit>>

\* CONFIRM: the delivery cascade ran; log the lead, reset the session, return
Delivered(w, upload_ok, by_id_ok, link_ok, text_ok) ==
    /\ thr[w].pc = "upload"
    /\ SESS' = ResetSession(SESS, thr[w].from)
    /\ thr' = [thr EXCEPT ![w] = With(@, [pc |-> "reply", reply |-> Reply("order_confirmed"), status |-> "ok",
                                          sent |-> Cascade(upload_ok, by_id_ok, link_ok),
                                          oks |-> CascadeOks(upload_ok, by_id_ok, link_ok, text_ok),
                                          last_ok |-> IF upload_ok /\ by_id_ok THEN TRUE
                                                      ELSE IF link_ok THEN TRUE ELSE text_ok])]
    /\ UNCHANGED <<INVOICES, tmp_pdf, now, made, visit>>

\* a photo reply whose failed send is not caught: the request ends without an answer
PhotosSent_FailureEscapes(w, ok) ==
    /\ thr[w].pc = "photos"
    /\ SESS' = IF ok THEN ResetSession(SESS, thr[w].from) ELSE SESS
    /\ thr' = [thr EXCEPT ![w] = IF ok THEN With(@, [pc |-> "reply", reply |-> NoReply, status |-> "ok"])
                                 ELSE With(@, [pc |-> "raised"])]
    /\ UNCHANGED <<INVOICES, tmp_pdf, now, made, visit>>

\* photo branches: the sends went through (reset, empty reply) or one raised
\* (caught by webhook, which answers "error")
PhotosSent(w, ok) ==
    /\ thr[w].pc = "photos"
    /\ SESS' = IF ok THEN ResetSession(SESS, thr[w].from) ELSE SESS
    /\ thr' = [thr EXCEPT ![w] = With(@, [pc |-> "reply", reply |-> NoReply,
                                          status |-> IF ok THEN "ok" ELSE "error"])]
    /\ UNCHANGED <<INVOICES, tmp_pdf, now, made, visit>>

\* webhook: send the reply (failures are logged), answer 200; the invoice
\* view: hand back the response
Finish(w) ==
    /\ thr[w].pc \in {"reply", "served"}
    /\ thr' = [thr EXCEPT ![w] = Idle]
    /\ UNCHANGED <<SESS, INVOICES, tmp_pdf, now, made, visit>>

\* a retrieval that asks the order store first and the cached file second
Invoice_StoreFirst(w, order_id, read_ok, render_ok) ==
    LET exists == order_id \in tmp_pdf
        stored == order_id \in DOMAIN INVOICES
    IN /\ thr[w].pc = "idle"
       /\ thr' = [thr EXCEPT ![w] =
                    [pc |-> "served", order_id |-> order_id, exists |-> exists, stored |-> stored,
                     read |-> IF ~stored THEN "skipped" ELSE IF ~exists THEN "skipped"
                              ELSE IF read_ok THEN "ok" ELSE "raised",
                     response |-> IF ~stored THEN "not_found"
                                  ELSE IF exists /\ read_ok THEN "cached"
                                  ELSE IF render_ok THEN "rendered" ELSE "error"]]
       /\ UNCHANGED <<SESS, INVOICES, tmp_pdf, now, made, visit>>

\* GET /invoice/<order_id>.pdf: the cached file if it exists and can be read,
\* else a fresh render of the stored order (a render that raises is not
\* caught: a server error), else 404
Invoice(w, order_id, read_ok, render_ok) ==
    LET exists == order_id \in tmp_pdf
        stored == order_id \in DOMAIN INVOICES
    IN /\ thr[w].pc = "idle"
       /\ thr' = [thr EXCEPT ![w] =
                    [pc |-> "served", order_id |-> order_id, exists |-> exists, stored |-> stored,
                     read |-> IF ~exists THEN "skipped" ELSE IF read_ok THEN "ok" ELSE "raised",
                     response |-> IF exists /\ read_ok THEN "cached"
                                  ELSE IF ~stored THEN "not_found"
                                  ELSE IF render_ok THEN "rendered" ELSE "error"]]
       /\ UNCHANGED <<SESS, INVOICES, tmp_pdf, now, made, visit>>

\* the UTC clock, in seconds: one second passes, or a whole retention window
Tick ==
    /\ (now % WINDOW_S) < MaxSecs
    /\ now' = now + 1
    /\ UNCHANGED <<SESS, INVOICES, tmp_pdf, thr, made, visit>>

TickWindow ==
    /\ (now \div WINDOW_S) < MaxWindows
    /\ \A w \in DOMAIN thr : thr[w].pc # "mail"
    /\ now' = now + WINDOW_S
    /\ UNCHANGED <<SESS, INVOICES, tmp_pdf, thr, made, visit>>

(***************************************************************************)
(* Specifications.                                                         *)
(***************************************************************************)
InitOf(W) ==
    /\ SESS = EmptyDict
    /\ INVOICES = EmptyDict
    /\ tmp_pdf = {}
    /\ now = 0
    /\ thr = [w \in W |-> Idle]
    /\ made = 0
    /\ visit = EmptyDict

MailOutcomes == {"noconfig", "failed", "sent"}

\* one customer, one request at a time: the checkout and confirmation dialogue
Init == InitOf({"t1"})

Next ==
    \/ \E text \in CheckoutTexts : Begin("t1", "254700000001", text)
    \/ \E mail \in MailOutcomes, render_ok \in BOOLEAN : EmailReturns("t1", mail, render_ok)
    \/ \E u, b, l, t \in BOOLEAN : Delivered("t1", u, b, l, t)
    \/ Finish("t1")

Spec == Init /\ [][Next]_vars

\* two request threads (the threaded server behind app.run) serving one
\* customer: handlers overlap at their blocking calls, and seconds pass.  The
\* first thread carries the conversation, the second a further delivery of
\* the confirmation token.
Threads == {"t1", "t2"}

InitConc == InitOf(Threads)

NextConc ==
    \/ \E text \in RaceTexts : Begin("t1", "254700000001", text)
    \/ Begin("t2", "254700000001", "confirm")
    \/ \E w \in Threads : EmailReturns(w, "sent", TRUE)
    \/ \E w \in Threads : Delivered(w, TRUE, TRUE, TRUE, TRUE)
    \/ \E w \in Threads : Finish(w)
    \/ Tick

SpecConc == InitConc /\ [][NextConc]_vars

\* one customer browsing the price list: pages, capacities, unknown words,
\* and the start of a checkout
NextBrowse ==
    \/ \E text \in BrowseTexts : Begin("t1", "254700000001", text)
    \/ Finish("t1")

SpecBrowse == Init /\ [][NextBrowse]_vars

\* the order ids asked for: the first second's, and one that is never issued
InvoiceIds == {new_order_id(0), new_order_id(0 - 1)}

\* one customer checking out, retrievals between the messages, and the
\* retention window passing
NextInvoice ==
    \/ \E text \in RaceTexts : Begin("t1", "254700000001", text)
    \/ \E render_ok \in BOOLEAN : EmailReturns("t1", "sent", render_ok)
    \/ Delivered("t1", TRUE, TRUE, TRUE, TRUE)
    \/ Finish("t1")
    \/ Tick
    \/ TickWindow
    \/ \E order_id \in InvoiceIds, read_ok, render_ok \in BOOLEAN : Invoice("t1", order_id, read_ok, render_ok)

SpecInvoice == Init /\ [][NextInvoice]_vars

\* two customers, each served by a request thread of their own: one goes
\* through the checkout, the other is part-way into it
Customers == {"254700000001", "254700000002"}

PairTexts == [c \in Customers |-> IF c = "254700000001" THEN RaceTexts ELSE {"nairobi", "Jane Wanjiku", "0712345678"}]

NextPair ==
    \/ \E text \in PairTexts["254700000001"] : Begin("t1", "254700000001", text)
    \/ \E text \in PairTexts["254700000002"] : Begin("t2", "254700000002", text)
    \/ \E w \in Threads : EmailReturns(w, "sent", TRUE)
    \/ \E w \in Threads : Delivered(w, TRUE, TRUE, TRUE, TRUE)
    \/ \E w \in Threads : Finish(w)

SpecPair == InitConc /\ [][NextPair]_vars

\* two customers on one request thread: one checks out, confirms and cancels,
\* the other only starts a checkout
LifeTexts == {"nairobi", "Jane Wanjiku", "0712345678", "confirm", "cancel", "yes"}

NextLife ==
    \/ \E text \in LifeTexts : Begin("t1", "254700000001", text)
    \/ Begin("t1", "254700000002", "nairobi")
    \/ EmailReturns("t1", "sent", TRUE)
    \/ Delivered("t1", TRUE, TRUE, TRUE, TRUE)
    \/ Finish("t1")

SpecLife == Init /\ [][NextLife]_vars

\* one customer, one request at a time, the whole conversation: menus and
\* photos, checkout, edits, cancellation, keywords and unknown words
InitDialog == InitOf({"t1"})

NextDialog ==
    \/ \E text \in DialogTexts : Begin("t1", "254700000001", text)
    \/ \E ok \in BOOLEAN : PhotosSent("t1", ok)
    \/ Finish("t1")

SpecDialog == InitDialog /\ [][NextDialog]_vars

\* one customer choosing and changing the delivery county, up to the
\* confirmed order: every send goes through
NextZone ==
    \/ \E text \in ZoneTexts : Begin("t1", "254700000001", text)
    \/ EmailReturns("t1", "sent", TRUE)
    \/ Delivered("t1", TRUE, TRUE, TRUE, TRUE)
    \/ Finish("t1")

SpecZone == Init /\ [][NextZone]_vars

(***************************************************************************)
(* Orders are created at confirmation only.                                *)
(***************************************************************************)
\* the handlers that hold an order: between assembling it and answering
Handlers == DOMAIN thr

HoldsOrder(w) == "order" \in DOMAIN thr[w]

\* C1: an order is assembled, stored or announced to staff only by a handler
\* whose message is the confirmation token and which found the session in
\* await_confirm; the token sent again after the reset makes no order
C1_OrderOnlyOnConfirm ==
    [][/\ made' # made =>
            \E w \in Handlers :
                /\ thr[w].pc = "idle" /\ thr'[w].pc = "mail"
                /\ Parsed[thr'[w].text].confirm
                /\ St(Get(SESS, thr'[w].from, Fresh)) = "await_confirm"
       /\ (INVOICES' # INVOICES \/ \E c \in DOMAIN visit' : visit'[c].mails > Get(visit, c, NoVisit).mails) =>
            \E w \in Handlers :
                /\ thr[w].pc = "mail" /\ thr'[w].pc = "upload"
                /\ Parsed[thr[w].text].confirm
                /\ thr[w].was = "await_confirm"]_vars

\* the token came again after the reset, one order is stored and no second one is made
C1_Witness ==
    \E w \in Handlers :
        /\ thr[w].pc = "reply" /\ Parsed[thr[w].text].confirm
        /\ thr[w].was = None /\ thr[w].reply = Reply("fallback_menu")
        /\ made = 1 /\ Cardinality(DOMAIN INVOICES) = 1

(***************************************************************************)
(* What a session ready for confirmation, and an order, carry.             *)
(***************************************************************************)
CheckoutFields == {"customer_name", "customer_phone", "last_product", "last_county"}

Complete(o) ==
    /\ o.customer_name # "" /\ o.customer_phone # "" /\ o.county # "-"
    /\ o.model # "" /\ o.capacity > 0 /\ o.price > 0

\* C2: a session in await_confirm holds the name, the phone, the viewed item
\* and the delivery county, and every order made or stored names the customer,
\* the phone, the county and a catalog item
C2_ConfirmableIsComplete ==
    /\ \A c \in DOMAIN SESS :
            St(SESS[c]) = "await_confirm" => CheckoutFields \subseteq DOMAIN SESS[c]
    /\ \A id \in DOMAIN INVOICES : Complete(INVOICES[id])

(***************************************************************************)
(* Confirmation completes whatever the channels do.                        *)
(***************************************************************************)
Confirmed(w) ==
    /\ thr[w].pc = "reply" /\ thr[w].was = "await_confirm"
    /\ Parsed[thr[w].text].confirm

\* C3: once the handler of the confirmation token has run, the order is
\* stored, the customer's session is the fresh default and the webhook
\* answers normally, whatever the mail, the rendering and the sends did
C3_ConfirmAlwaysCompletes ==
    \A w \in Handlers :
        Confirmed(w) =>
            /\ thr[w].order.id \in DOMAIN INVOICES
            /\ INVOICES[thr[w].order.id] = thr[w].order
            /\ SESS[thr[w].from] = Fresh
            /\ thr[w].status = "ok" /\ thr[w].reply = Reply("order_confirmed")

\* everything failed: no mail configuration, no PDF, upload, link and text all refused
C3_Witness ==
    \E w \in Handlers :
        /\ Confirmed(w)
        /\ thr[w].mail = "noconfig" /\ thr[w].order.id \notin tmp_pdf
        /\ thr[w].sent = <<"upload", "link", "text">> /\ ~thr[w].last_ok
        /\ SESS[thr[w].from] = Fresh

(***************************************************************************)
(* Handlers running at once.                                               *)
(***************************************************************************)
\* a handler blocked in a channel call with a write to SESS still to come
PendingWrite(w) == thr[w].pc \in {"mail", "upload", "photos"}

Starts(w) == thr[w].pc = "idle" /\ thr'[w].pc # "idle"

\* C4: in one visit to await_confirm at most one order is made and at most
\* one staff mail is sent, also when two confirmation tokens are handled at once
C4_ConfirmedOncePerVisit ==
    \A c \in DOMAIN visit : visit[c].orders <= 1 /\ visit[c].mails <= 1

\* C5: a handler reads a customer's session only after every earlier handler
\* of that customer has made its last write to it
C5_SameCustomerNeverOverlaps ==
    [][\A w \in Handlers :
            Starts(w) =>
                \A v \in Handlers \ {w} : PendingWrite(v) => thr[v].from # thr'[w].from]_vars

\* the customer a step of handler w works for
Serves(w) == IF thr[w].pc = "idle" THEN thr'[w].from ELSE thr[w].from

Message(w) == IF thr[w].pc = "idle" THEN thr'[w].text ELSE thr[w].text

SameSession(S, T, c) == (c \in DOMAIN S <=> c \in DOMAIN T) /\ (c \in DOMAIN S => S[c] = T[c])

\* C6: a step of a handler leaves the session of every other customer as it
\* was, and what it writes to its own customer's session is computed from
\* that session and the message alone
C6_CustomersIndependent ==
    [][\A w \in Handlers :
            thr'[w] # thr[w] =>
                /\ \A b \in Customers \ {Serves(w)} : SameSession(SESS, SESS', b)
                /\ SESS'[Serves(w)] \in
                        { Get(SESS, Serves(w), Fresh), Fresh,
                          brain_reply(Parsed[Message(w)], Get(SESS, Serves(w), Fresh)).sess }]_vars

\* one customer's confirmation has completed and reset their session while the
\* other thread is answering the second customer, who is left part-way in
C6_Witness ==
    \E w, v \in Handlers :
        /\ Confirmed(w) /\ thr[w].from = "254700000001" /\ SESS["254700000001"] = Fresh
        /\ thr[v].pc = "reply" /\ thr[v].from = "254700000002"
        /\ "254700000002" \in DOMAIN SESS /\ St(SESS["254700000002"]) = "await_phone"

\* C7: two confirmations never get the same identifier: the orders held by
\* two handlers differ in it, and an order about to be stored does not take
\* the place of a stored one
C7_OrderIdsUnique ==
    \A w \in Handlers :
        HoldsOrder(w) =>
            /\ \A v \in Handlers \ {w} : HoldsOrder(v) => thr[v].order.id # thr[w].order.id
            /\ thr[w].pc = "mail" => thr[w].order.id \notin DOMAIN INVOICES

(***************************************************************************)
(* The phases of the conversation.                                         *)
(***************************************************************************)
PHASES == {None, "prices", "chicks_menu", "eggs_menu", "cages_menu"} \cup NON_INTERRUPT

\* the handler has answered message text, having found the session in phase was
Answered(w, text, was) == thr[w].pc = "reply" /\ thr[w].text = text /\ thr[w].was = was

\* C8: every session has one of the defined phases, and when no rule claims
\* the input (the fallback answers) the session is the fresh default
C8_PhaseAlwaysDefined ==
    /\ \A c \in DOMAIN SESS : "state" \in DOMAIN SESS[c] /\ SESS[c].state \in PHASES
    /\ \A w \in Handlers :
            thr[w].pc = "reply" /\ thr[w].reply = Reply("fallback_menu") => SESS[thr[w].from] = Fresh

\* an unknown word while cancel_confirm waits for yes or no: fallback, fresh session
C8_Witness ==
    \E w \in Handlers :
        /\ Answered(w, "xyz", "cancel_confirm")
        /\ thr[w].reply = Reply("fallback_menu") /\ SESS[thr[w].from] = Fresh

\* C9: from every reachable session one input brings the phase back to
\* Idle, so some finite sequence of inputs always does
C9_IdleAlwaysReachable ==
    \A c \in DOMAIN SESS :
        \E text \in DialogTexts :
            LET r == brain_reply(Parsed[text], SESS[c])
            IN r.kind = "done" /\ St(r.sess) = None

\* out of the edit of a name, deep in the checkout, with everything collected
C9_Witness ==
    \E w \in Handlers :
        /\ Answered(w, "agent", "edit_name")
        /\ St(SESS[thr[w].from]) = None

KEYWORD_REPLIES == {"agent_handoff", "troubleshooting", "price_page", "delivery_terms"}

IN_PROGRESS == {"await_name", "await_phone", "await_confirm",
                "edit_menu", "edit_name", "edit_phone", "edit_county", "edit_model"}

\* C10: in an in-progress phase an input without a cancel word goes to the
\* handler of the phase: no keyword rule answers it, and a name of two or
\* more characters typed in await_name is stored and await_phone follows
C10_PhaseHandlerBeforeKeywords ==
    \A w \in Handlers :
        thr[w].pc = "reply" /\ thr[w].was \in IN_PROGRESS /\ ~Parsed[thr[w].text].cancel =>
            /\ thr[w].reply.text \notin KEYWORD_REPLIES
            /\ thr[w].was = "await_name" /\ Len(Parsed[thr[w].text].name) >= 2 =>
                    /\ St(SESS[thr[w].from]) = "await_phone"
                    /\ SESS[thr[w].from].customer_name = Parsed[thr[w].text].name

(***************************************************************************)
(* Cancellation.                                                           *)
(***************************************************************************)
COLLECTED == {"customer_name", "customer_phone", "last_product", "last_county", "last_eta"}

\* the collected fields of two sessions agree, absent ones included
SameCollected(a, b) ==
    \A k \in COLLECTED : (k \in DOMAIN a <=> k \in DOMAIN b) /\ (k \in DOMAIN a => a[k] = b[k])

CANCELLABLE == NON_INTERRUPT \ {"cancel_confirm"}

\* C11: a cancel word typed in an order or edit phase leads to cancel_confirm,
\* records the phase left in prev_state, keeps every collected field and makes
\* no order, whatever else the text holds; typed in Idle or while browsing it
\* does not; so prev_state of a session in cancel_confirm is such a phase
C11_CancelShadowsAll ==
    /\ [](\A c \in DOMAIN SESS :
            St(SESS[c]) = "cancel_confirm" => Get(SESS[c], "prev_state", None) \in CANCELLABLE)
    /\ [][\A w \in Handlers :
            Starts(w) /\ Parsed[thr'[w].text].cancel =>
                LET old == Get(SESS, thr'[w].from, Fresh)
                    new == SESS'[thr'[w].from]
                IN IF St(old) \in CANCELLABLE
                   THEN /\ St(new) = "cancel_confirm" /\ new["prev_state"] = St(old)
                        /\ SameCollected(old, new) /\ new["page"] = old["page"]
                        /\ thr'[w].pc = "reply" /\ made' = made
                   ELSE St(old) # "cancel_confirm" => St(new) # "cancel_confirm"]_vars

\* a cancel word next to an agent keyword, typed while a name is being edited
C11_Witness ==
    \E w \in Handlers :
        /\ Answered(w, "cancel agent", "edit_name")
        /\ St(SESS[thr[w].from]) = "cancel_confirm"
        /\ SESS[thr[w].from]["prev_state"] = "edit_name"
        /\ COLLECTED \subseteq DOMAIN SESS[thr[w].from]

\* C12: in cancel_confirm an affirmative answer leaves the fresh session and
\* a negative one restores the phase left with the collected fields as they
\* were, so a cancel word followed by a negative answer changes neither; a
\* cancel word repeated in cancel_confirm never makes cancel_confirm the
\* phase to restore
C12_CancelResolved ==
    \A c \in DOMAIN SESS :
        /\ St(SESS[c]) = "cancel_confirm" =>
                /\ brain_reply(Parsed["yes"], SESS[c]).sess = Fresh
                /\ LET back == brain_reply(Parsed["no"], SESS[c]).sess
                   IN St(back) = SESS[c]["prev_state"] /\ SameCollected(back, SESS[c])
                /\ LET again == brain_reply(Parsed["cancel"], SESS[c]).sess
                   IN Get(again, "prev_state", None) # "cancel_confirm"
        /\ St(SESS[c]) \in CANCELLABLE =>
                LET asked == brain_reply(Parsed["cancel"], SESS[c]).sess
                    back == brain_reply(Parsed["no"], asked).sess
                IN St(back) = St(SESS[c]) /\ SameCollected(back, SESS[c])

\* the customer backed out of a cancellation asked for in the edit menu
C12_Witness ==
    \E w \in Handlers :
        /\ Answered(w, "no", "cancel_confirm")
        /\ St(SESS[thr[w].from]) = "edit_menu"
        /\ COLLECTED \subseteq DOMAIN SESS[thr[w].from]

(***************************************************************************)
(* Category shortcuts and keyword intents.                                 *)
(***************************************************************************)
\* the category a text asks for by number or by keyword, None when it asks for none
JumpTarget(x) ==
    IF x.digits = "1" \/ x.incubator THEN "prices"
    ELSE IF x.digits = "3" \/ x.eggs THEN "eggs_menu"
    ELSE IF x.digits = "2" \/ x.is_chicks THEN "chicks_menu"
    ELSE IF x.digits = "4" \/ x.cages THEN "cages_menu"
    ELSE None

JumpReply(target) ==
    IF target = "prices" THEN "incubator_text"
    ELSE IF target = "eggs_menu" THEN "fertile_eggs_text"
    ELSE IF target = "chicks_menu" THEN "chicks_info_text"
    ELSE "cages_text"

\* the moves a category menu makes by its own handler
OwnMove(was, target) ==
    \/ was = "chicks_menu" /\ target = "eggs_menu"
    \/ was = "eggs_menu" /\ target = "cages_menu"

\* C13: a category number or keyword changes the phase to that category
\* only from Idle; in prices and in the category menus it triggers no jump
C13_JumpOnlyFromIdle ==
    \A w \in Handlers :
        LET target == JumpTarget(Parsed[thr[w].text])
        IN thr[w].pc = "reply" /\ thr[w].was # None /\ target # None /\ ~OwnMove(thr[w].was, target) =>
                ~(/\ Get(thr[w].reply, "text", None) = JumpReply(target)
                  /\ St(SESS[thr[w].from]) = target)

STATELESS_REPLIES == {"agent_handoff", "troubleshooting", "delivery_terms"}

\* C14: the agent, troubleshooting and delivery-terms intents are answered
\* with the session left as it was: same phase, same collected fields
C14_IntentsKeepSession ==
    [][\A w \in Handlers :
            Starts(w) /\ thr'[w].pc = "reply"
                      /\ Get(thr'[w].reply, "text", None) \in STATELESS_REPLIES =>
                LET old == Get(SESS, thr'[w].from, Fresh)
                    new == SESS'[thr'[w].from]
                IN St(new) = St(old) /\ SameCollected(old, new)]_vars

(***************************************************************************)
(* The catalog and document functions, called on their own.                *)
(***************************************************************************)
MaxCap == 5300
MaxAsk == 4
MaxPerPage == 20
MaxY == 286

\* a signature block of fixed height, with the footer set below it
signature_block_unpinned(cur_y) ==
    LET max_sig_h == 22
        block_top_y == cur_y + 7
    IN [title_y |-> cur_y, sig_h |-> max_sig_h, image_fits |-> TRUE, image_h |-> max_sig_h - 6,
        line_y |-> block_top_y + max_sig_h, footer_y |-> block_top_y + max_sig_h + 4, footer_page |-> 1]

\* generate_invoice_pdf, from "Signature / Stamp block" on: the block's
\* height and the footer, for the cursor cur_y the notes left (millimetres
\* down an A4 page with 15 mm margins)
signature_block(cur_y) ==
    LET FOOTER_H == 16
        GAP_BEFORE_FOOTER == 4
        min_sig_h == 10
        max_sig_h == 22
        page_h == 297
        b_margin == 15
        t_margin == 15
        footer_top == page_h - b_margin - FOOTER_H
        y == IF cur_y > footer_top - min_sig_h THEN Max2(t_margin, footer_top - min_sig_h) ELSE cur_y
        remaining == footer_top - GAP_BEFORE_FOOTER - y
        sig_h == Max2(min_sig_h, Min2(max_sig_h, remaining))
        block_top_y == y + 7
    IN [title_y |-> y, sig_h |-> sig_h, image_fits |-> sig_h > min_sig_h + 2, image_h |-> Max2(8, sig_h - 6),
        line_y |-> block_top_y + sig_h, footer_y |-> footer_top, footer_page |-> 1]

\* generate_invoice_pdf: what is drawn, and where.  logo_path and sig_path
\* say whether _fetch_to_tmp gave a file; multi_cell wraps the description
\* by glyph widths, taken here as 44 glyphs of one width to the line
generate_invoice_pdf(order, logo_path, sig_path) ==
    LET left_after_logo == 15 + (IF logo_path THEN 30 ELSE 0) + 2
        cap == order.capacity
        flagged(flag) == \E i \in 1..Len(CATALOG) : CATALOG[i].capacity = cap /\ CATALOG[i][flag]
        model_full == IF flagged("solar") THEN ToString(cap) \o " Eggs  Incubator (Solar / Electric)"
                      ELSE IF flagged("free_gen") THEN ToString(cap) \o " Eggs Automatic Incubator (Free Backup Generator)"
                      ELSE ToString(cap) \o " Eggs Automatic Incubator"
        desc == <<model_full \o " | FREE Delivery ", "- Delivery: " \o order.eta \o " | Pay on delivery">>
        wrapped(line) == Max2(1, (Len(line) + 43) \div 44)
        y0 == 82
        line_h == 8
        row_bottom == Max2(y0 + line_h, y0 + line_h * (wrapped(desc[1]) + wrapped(desc[2])))
        notes_y == row_bottom + 6 + 8 + 8 + 6
        cur_y == notes_y + 7 + 4 * 6 + 4
        foot == signature_block(cur_y)
    IN [logo |-> logo_path,
        business_name |-> <<left_after_logo, 7>>,
        title |-> <<left_after_logo, 14>>,
        invoice_no |-> <<15, 22, order.id>>,
        date |-> <<15, 28, (order.created_at_utc + 3 * 3600) \div 86400>>,
        customer_name |-> <<15, 50, order.customer_name>>,
        customer_phone |-> <<15, 56, order.customer_phone>>,
        county |-> <<15, 62, order.county>>,
        description |-> <<15, y0, desc>>,
        qty |-> <<110, y0, 1>>,
        unit_price |-> <<135, y0, order.price>>,
        amount |-> <<165, y0, order.price * 1>>,
        row_bottom |-> row_bottom,
        subtotal |-> <<165, row_bottom + 6, order.price * 1>>,
        total |-> <<165, row_bottom + 6 + 8, order.price * 1>>,
        notes |-> <<15, notes_y>>,
        signature_title |-> <<15, foot.title_y>>,
        signature_image |-> IF sig_path /\ foot.image_fits THEN <<15, foot.title_y + 7 + 2, foot.image_h>> ELSE <<>>,
        signature_line |-> <<15, foot.line_y>>,
        footer |-> <<foot.footer_page, foot.footer_y>>]

\* a thread about to evaluate find_by_capacity(cap), price_page_text(page,
\* per_page), the signature block at a cursor on the first page, or
\* generate_invoice_pdf(order) for an order the CONFIRM branch can build
CatalogCalls ==
    {[pc |-> "find_by_capacity", cap |-> c] : c \in 0..MaxCap}
        \cup {[pc |-> "price_page_text", page |-> n, per_page |-> k] : n \in (0 - MaxAsk)..MaxAsk, k \in 1..MaxPerPage}
        \cup {[pc |-> "signature_block", cur_y |-> y] : y \in 0..MaxY}
        \cup {[pc |-> "generate_invoice_pdf", docs |-> <<>>,
               order |-> MakeOrder(With(sess, [customer_name |-> "Jane Wanjiku", customer_phone |-> "0712345678"]),
                                   "254700000001", ts)] :
                    sess \in {[last_county |-> "Nairobi", last_eta |-> "same day"], [last_county |-> "Kiambu", last_eta |-> "24 hours"]}
                        \cup {[last_product |-> CATALOG[i], last_county |-> "Kiambu", last_eta |-> "24 hours"] : i \in 1..Len(CATALOG)},
                    ts \in {0, 21 * 3600}}

InitCatalog ==
    /\ SESS = EmptyDict
    /\ INVOICES = EmptyDict
    /\ tmp_pdf = {}
    /\ now = 0
    /\ thr \in {[w \in {"t1"} |-> call] : call \in CatalogCalls}
    /\ made = 0
    /\ visit = EmptyDict

FindReturns(w) ==
    /\ thr[w].pc = "find_by_capacity"
    /\ thr' = [thr EXCEPT ![w] = With(@, [pc |-> "found", item |-> find_by_capacity(thr[w].cap)])]
    /\ UNCHANGED <<SESS, INVOICES, tmp_pdf, now, made, visit>>

PageReturns(w) ==
    /\ thr[w].pc = "price_page_text"
    /\ thr' = [thr EXCEPT ![w] = With(@, [pc |-> "paged", shown |-> price_page_text(thr[w].page, thr[w].per_page)])]
    /\ UNCHANGED <<SESS, INVOICES, tmp_pdf, now, made, visit>>

SignatureReturns(w) ==
    /\ thr[w].pc = "signature_block"
    /\ thr' = [thr EXCEPT ![w] = With(@, [pc |-> "signed", foot |-> signature_block(thr[w].cur_y)])]
    /\ UNCHANGED <<SESS, INVOICES, tmp_pdf, now, made, visit>>

\* the order is rendered, at confirmation and once more at a retrieval
RenderReturns(w, logo_path, sig_path) ==
    /\ thr[w].pc = "generate_invoice_pdf"
    /\ thr' = [thr EXCEPT ![w] = With(@, [pc |-> IF thr[w].docs = <<>> THEN "generate_invoice_pdf" ELSE "rendered",
                                          docs |-> Append(thr[w].docs, generate_invoice_pdf(thr[w].order, logo_path, sig_path))])]
    /\ UNCHANGED <<SESS, INVOICES, tmp_pdf, now, made, visit>>

NextCatalog ==
    \/ FindReturns("t1")
    \/ PageReturns("t1")
    \/ SignatureReturns("t1")
    \/ \E logo_path, sig_path \in BOOLEAN : RenderReturns("t1", logo_path, sig_path)

SpecCatalog == InitCatalog /\ [][NextCatalog]_vars

Items == {CATALOG[i] : i \in 1..Len(CATALOG)}

\* C15: find_by_capacity returns a catalog item, never "not found": for a
\* request up to the largest capacity the one item of smallest capacity that
\* covers it, for a larger request the largest item
C15_CeilingMatch ==
    \A w \in Handlers :
        thr[w].pc = "found" =>
            LET cap == thr[w].cap
                hit == thr[w].item
                LargestCapacity == CHOOSE m \in {p.capacity : p \in Items} : \A p \in Items : p.capacity <= m
            IN /\ hit \in Items
               /\ cap <= LargestCapacity =>
                    /\ hit.capacity >= cap
                    /\ \A q \in Items : q.capacity >= cap => q.capacity >= hit.capacity
                    /\ \A q \in Items : q.capacity = hit.capacity => q = hit
               /\ cap > LargestCapacity => hit.capacity = LargestCapacity

\* asking for 600 eggs gives the 616-egg incubator
C15_Witness ==
    \E w \in Handlers : thr[w].pc = "found" /\ thr[w].cap = 600 /\ thr[w].item.capacity = 616

RECURSIVE PagesFrom(_, _, _)
PagesFrom(n, last, per_page) ==
    IF n > last THEN <<>> ELSE price_page_text(n, per_page).chunk \o PagesFrom(n + 1, last, per_page)

\* C16: the page shown for a request n is n clamped into 1..pages, where
\* pages is the least count of pages (at least one) that holds the catalog,
\* and the pages in order list every item once by ascending capacity
C16_Pagination ==
    \A w \in Handlers :
        thr[w].pc = "paged" =>
            LET n == thr[w].page
                k == thr[w].per_page
                r == thr[w].shown
                all == PagesFrom(1, r.pages, k)
            IN /\ r.pages >= 1 /\ r.pages * k >= Len(CATALOG)
               /\ r.pages > 1 => (r.pages - 1) * k < Len(CATALOG)
               /\ r.page = (IF n < 1 THEN 1 ELSE IF n > r.pages THEN r.pages ELSE n)
               /\ r.chunk = price_page_text(r.page, k).chunk
               /\ Len(all) = Len(CATALOG) /\ {all[i] : i \in 1..Len(all)} = Items
               /\ \A i \in 1..(Len(all) - 1) : all[i].capacity < all[i + 1].capacity

\* a request beyond the last of three pages of seven shows the last page, with four items
C16_Witness ==
    \E w \in Handlers :
        /\ thr[w].pc = "paged" /\ thr[w].page = 4 /\ thr[w].per_page = 7
        /\ thr[w].shown.page = 3 /\ Len(thr[w].shown.chunk) = 4

(***************************************************************************)
(* The order of the dispatch at confirmation.                              *)
(***************************************************************************)
\* C17: the staff mail is attempted first, the order is stored next and
\* the document is delivered last; the delivery uploads once and sends by
\* reference if the upload worked, by link only if the upload or that send
\* failed, as plain text only if the link failed: at most three sends, at
\* most one of them successful, none after a successful one
C17_DispatchOrder ==
    \A w \in Handlers :
        /\ thr[w].pc = "mail" => "mail" \notin DOMAIN thr[w] /\ "sent" \notin DOMAIN thr[w]
        /\ thr[w].pc = "upload" =>
                /\ "mail" \in DOMAIN thr[w] /\ "sent" \notin DOMAIN thr[w]
                /\ thr[w].order.id \in DOMAIN INVOICES
        /\ "sent" \in DOMAIN thr[w] =>
            LET sent == thr[w].sent
                CallAt(call) == IF \E i \in 1..Len(sent) : sent[i] = call
                                THEN CHOOSE i \in 1..Len(sent) : sent[i] = call
                                ELSE 0
                Tried(call) == CallAt(call) > 0
                Worked(call) == Tried(call) /\ thr[w].oks[CallAt(call)]
                sends == {"by_id", "link", "text"}
            IN  /\ "mail" \in DOMAIN thr[w] /\ thr[w].order.id \in DOMAIN INVOICES
                /\ Len(sent) = Len(thr[w].oks)
                /\ sent[1] = "upload"
                /\ \A i \in 1..Len(sent) : sent[i] \in sends \cup {"upload"}
                /\ \A i, j \in 1..Len(sent) : i < j => sent[i] # sent[j]
                /\ Tried("by_id") <=> Worked("upload")
                /\ Tried("link") <=> ~Worked("upload") \/ ~Worked("by_id")
                /\ Tried("text") <=> Tried("link") /\ ~Worked("link")
                /\ Tried("by_id") /\ Tried("link") => CallAt("by_id") < CallAt("link")
                /\ Tried("text") => CallAt("link") < CallAt("text")
                /\ Cardinality({c \in sends : Tried(c)}) <= 3
                /\ Cardinality({c \in sends : Worked(c)}) <= 1
                /\ \A c \in sends : Worked(c) => CallAt(c) = Len(sent)

\* the send by reference failed after a good upload, and the link went through
C17_Witness ==
    \E w \in Handlers :
        /\ thr[w].pc = "reply" /\ "sent" \in DOMAIN thr[w]
        /\ thr[w].sent = <<"upload", "by_id", "link">>
        /\ thr[w].oks = <<TRUE, FALSE, TRUE>>
        /\ thr[w].mail = "failed"

C19_FailureContained ==
    /\ [](\A w \in Handlers :
            /\ thr[w].pc \in {"idle", "photos", "reply"}
            /\ thr[w].pc = "reply" => thr[w].status \in {"ok", "error"})
    /\ [](\A c \in DOMAIN SESS, text \in DialogTexts :
            LET r == brain_reply(Parsed[text], SESS[c])
            IN r.kind \in {"done", "photos", "confirm"} /\ St(r.sess) \in PHASES)
    /\ [][\A w \in Handlers :
            /\ thr[w].pc = "photos" /\ thr'[w] # thr[w] =>
                    /\ thr'[w].pc = "reply"
                    /\ thr'[w].status = "error" => SESS' = SESS
                    /\ St(SESS'[thr[w].from]) \in PHASES
            /\ thr[w].pc = "reply" /\ thr'[w] # thr[w] => thr'[w] = Idle /\ SESS' = SESS]_vars

\* a photo send failed in the chicks menu: answered "error", session still in the menu
C19_Witness ==
    \E w \in Handlers :
        /\ thr[w].pc = "reply" /\ thr[w].status = "error"
        /\ thr[w].was = "chicks_menu" /\ St(SESS[thr[w].from]) = "chicks_menu"

(***************************************************************************)
(* The life of a session.                                                  *)
(***************************************************************************)
\* C20: a customer's first message finds no session, and is handled from the
\* fresh one (Idle, page 1), which is in the store from then on; a session
\* in the store is never removed and always has its phase and page; and
\* the session is the fresh one after a confirmed cancellation and after a
\* confirmed order
C20_SessionLifecycle ==
    /\ [](\A c \in DOMAIN SESS : {"state", "page"} \subseteq DOMAIN SESS[c])
    /\ [][\A w \in Handlers :
            /\ DOMAIN SESS \subseteq DOMAIN SESS'
            /\ thr[w].pc = "idle" /\ thr'[w].pc # "idle" =>
                    LET c == thr'[w].from
                    IN /\ c \in DOMAIN SESS'
                       /\ c \notin DOMAIN SESS =>
                            /\ thr'[w].was = None
                            /\ SESS'[c] = brain_reply(Parsed[thr'[w].text], [state |-> None, page |-> 1]).sess
                       /\ thr'[w].was = "cancel_confirm" /\ thr'[w].text = "yes" => SESS'[c] = [state |-> None, page |-> 1]
            /\ thr[w].pc = "upload" /\ thr'[w].pc = "reply" =>
                    /\ thr[w].from \in DOMAIN SESS'
                    /\ SESS'[thr[w].from] = [state |-> None, page |-> 1]]_vars

\* the first customer's order is confirmed and their session replaced by
\* the fresh one, while the second customer's session stays in the store
C20_Witness ==
    \E w \in Handlers :
        /\ thr[w].pc = "reply" /\ "sent" \in DOMAIN thr[w] /\ thr[w].from = "254700000001"
        /\ SESS["254700000001"] = [state |-> None, page |-> 1]
        /\ "254700000002" \in DOMAIN SESS /\ St(SESS["254700000002"]) = "await_name"

(***************************************************************************)
(* The rendered document.                                                  *)
(***************************************************************************)
\* C21: an order rendered twice, at confirmation and again at a retrieval,
\* gives the same document: every field with the same value at the same place
C21_RenderIsPure ==
    \A w \in Handlers :
        thr[w].pc = "rendered" => thr[w].docs[1] = thr[w].docs[2]

\* C22: wherever on the first page the notes end, the footer is set at 297 -
\* 15 - 16 = 266 mm on that page, and the signature block's height is the
\* space left above the footer less the gap of 4, clamped into 10..22
C22_FooterPinned ==
    \A w \in Handlers :
        /\ thr[w].pc = "signed" =>
            LET left == 266 - 4 - thr[w].cur_y
            IN /\ thr[w].foot.footer_y = 266 /\ thr[w].foot.footer_page = 1
               /\ thr[w].foot.sig_h >= 10 /\ thr[w].foot.sig_h <= 22
               /\ thr[w].foot.sig_h = (IF left < 10 THEN 10 ELSE IF left > 22 THEN 22 ELSE left)
        /\ thr[w].pc \in {"generate_invoice_pdf", "rendered"} =>
            \A i \in 1..Len(thr[w].docs) : thr[w].docs[i].footer = <<1, 266>>

\* the notes end at 250 mm: twelve millimetres are left, and taken
C22_Witness ==
    \E w \in Handlers :
        thr[w].pc = "signed" /\ thr[w].cur_y = 250 /\ thr[w].foot.sig_h = 12 /\ thr[w].foot.footer_y = 266

(***************************************************************************)
(* Delivery terms and the price list.                                      *)
(***************************************************************************)
\* C23: a message with a delivery-terms trigger leaves the session in the
\* phase that waits for the delivery zone
C23_DeliveryAsksZone ==
    \A w \in Handlers :
        thr[w].pc = "reply" /\ Parsed[thr[w].text].delivery => St(SESS[thr[w].from]) = "await_county"

\* C24: the page cursor of every session lies between 1 and the number of
\* pages of the price list
C24_PageCursorClamped ==
    \A c \in DOMAIN SESS :
        1 <= SESS[c]["page"] /\ SESS[c]["page"] <= price_page_text(1, PER_PAGE).pages

\* C25: every step from Idle into the price list leaves the page cursor at 1
\* and answers with the first page of the list
C25_BrowsingStartsAtPageOne ==
    \A w \in Handlers :
        thr[w].pc = "reply" /\ thr[w].was = None /\ St(SESS[thr[w].from]) = "prices" =>
            /\ SESS[thr[w].from]["page"] = 1
            /\ thr[w].reply = [text |-> "price_page", page |-> 1]

C27_UnparsedCapacityKeepsSession ==
    [][\A w \in Handlers :
            Starts(w) /\ thr'[w].was = "prices" /\ thr'[w].text = "xyz" =>
                SESS'[thr'[w].from] = SESS[thr'[w].from]]_vars

(***************************************************************************)
(* Checkout fields and their edits.                                        *)
(***************************************************************************)
\* C28: in await_name a text of two or more characters is stored as the name
\* and await_phone follows, a shorter one changes nothing; in await_phone a
\* text with nine or more digits is stored, reduced to digits, plus and
\* space, and await_confirm follows, one with fewer changes nothing; so a
\* stored name has two characters or more and a stored phone nine digits
C28_CheckoutValidation ==
    [][\A w \in Handlers :
            LET x == Parsed[thr'[w].text]
                c == thr'[w].from
            IN Starts(w) /\ ~x.cancel =>
                /\ thr'[w].was = "await_name" =>
                        SESS'[c] = (IF Len(x.name) >= 2
                                    THEN With(SESS[c], [customer_name |-> x.name, state |-> "await_phone"])
                                    ELSE SESS[c])
                /\ thr'[w].was = "await_phone" =>
                        SESS'[c] = (IF x.phone_digits >= 9
                                    THEN With(SESS[c], [customer_phone |-> x.phone, state |-> "await_confirm"])
                                    ELSE SESS[c])
                /\ "customer_name" \in DOMAIN SESS'[c] => Len(SESS'[c].customer_name) >= 2
                /\ "customer_phone" \in DOMAIN SESS'[c] => Len(Keep(SESS'[c].customer_phone, DigitChars)) >= 9]_vars

\* C29: an edit request in await_confirm leads to edit_menu; in edit_menu the
\* choices 1 to 4 (or their names) lead to edit_name, edit_phone, edit_county
\* and edit_model, every other text without a cancel word leaves edit_menu in
\* place; the collected fields are the same after either step
C29_EditMenuChoices ==
    [][\A w \in Handlers :
            LET x == Parsed[thr'[w].text]
                c == thr'[w].from
            IN Starts(w) /\ ~x.cancel =>
                /\ thr'[w].was = "await_confirm" /\ x.edit =>
                        St(SESS'[c]) = "edit_menu" /\ SameCollected(SESS[c], SESS'[c])
                /\ thr'[w].was = "edit_menu" =>
                        /\ St(SESS'[c]) = (IF x.choice \in {"1", "name"} THEN "edit_name"
                                           ELSE IF x.choice \in {"2", "phone"} THEN "edit_phone"
                                           ELSE IF x.choice \in {"3", "county"} THEN "edit_county"
                                           ELSE IF x.choice \in {"4", "model", "capacity"} THEN "edit_model"
                                           ELSE "edit_menu")
                        /\ SameCollected(SESS[c], SESS'[c])]_vars

\* C30: in an edit phase a valid value replaces its own field (the county
\* together with its ETA) and await_confirm follows, an invalid one changes
\* nothing; no other field changes
C30_EditChangesOneField ==
    [][\A w \in Handlers :
            LET x == Parsed[thr'[w].text]
                c == thr'[w].from
                back(upd) == With(SESS[c], With(upd, [state |-> "await_confirm"]))
            IN Starts(w) /\ ~x.cancel =>
                /\ thr'[w].was = "edit_name" =>
                        SESS'[c] = (IF Len(x.name) >= 2 THEN back([customer_name |-> x.name]) ELSE SESS[c])
                /\ thr'[w].was = "edit_phone" =>
                        SESS'[c] = (IF x.phone_digits >= 9 THEN back([customer_phone |-> x.phone]) ELSE SESS[c])
                /\ thr'[w].was = "edit_county" =>
                        SESS'[c] = (IF x.county # "" THEN back([last_county |-> x.county_title, last_eta |-> x.county_eta])
                                    ELSE SESS[c])
                /\ thr'[w].was = "edit_model" =>
                        SESS'[c] = (IF x.cap # -1 THEN back([last_product |-> x.product]) ELSE SESS[c])]_vars

\* C31: a delivery county is stored only after it was found in the gazetteer:
\* every last_county a session holds is one of COUNTIES (in its title form).
C31_ZoneFromGazetteer ==
    \A c \in DOMAIN SESS :
        "last_county" \in DOMAIN SESS[c] => Lower(SESS[c]["last_county"]) \in COUNTIES

\* C32: the delivery estimate always follows the county: a session that holds
\* last_county holds last_eta too, "same day" exactly when the county's first
\* word is nairobi and "24 hours" otherwise, also after the county was edited;
\* every order made or stored carries the estimate of its own county.
C32_EtaFollowsZone ==
    LET EtaOf(county) == IF FirstPart(Lower(county)) = "nairobi" THEN "same day" ELSE "24 hours"
    IN /\ \A c \in DOMAIN SESS :
            "last_county" \in DOMAIN SESS[c] =>
                /\ "last_eta" \in DOMAIN SESS[c]
                /\ SESS[c]["last_eta"] = EtaOf(SESS[c]["last_county"])
       /\ \A oid \in DOMAIN INVOICES : INVOICES[oid].eta = EtaOf(INVOICES[oid].county)
       /\ \A w \in Handlers : HoldsOrder(w) => thr[w].order.eta = EtaOf(thr[w].order.county)

\* the county was given as Nairobi by the shortcut, edited to another one, and
\* the order was confirmed and stored with the new county's estimate
C32_Witness ==
    \E oid \in DOMAIN INVOICES :
        /\ INVOICES[oid].county = "Xyz"
        /\ INVOICES[oid].eta = "24 hours"
        /\ \E w \in Handlers : thr[w].pc = "reply" /\ HoldsOrder(w) /\ thr[w].order = INVOICES[oid]

\* C33: the county shortcut answers only a text that names a county of the
\* gazetteer and that no earlier rule took: not a cancel word, not in
\* await_name, await_phone, edit_menu or an edit_* phase (there the text is
\* the phase's own input).  When it answers, it stores the county with its
\* estimate and moves the session to await_name, leaving the rest as it was;
\* from Idle and from await_confirm a county name is always answered by it.
C33_ZoneShortcutIsLast ==
    [][\A w \in Handlers :
          LET x == Parsed[thr'[w].text]
              c == thr'[w].from
              was == thr'[w].was
              old == Get(SESS, c, Fresh)
              OWN_INPUT == {"await_name", "await_phone", "edit_menu",
                            "edit_name", "edit_phone", "edit_county", "edit_model"}
              fired == /\ thr'[w].pc = "reply"
                       /\ thr'[w].reply = Reply("county_eta_ask_name")
                       /\ was # "await_county"
          IN Starts(w) =>
                /\ fired =>
                      /\ x.c_guess \in COUNTIES
                      /\ ~x.cancel
                      /\ was \notin OWN_INPUT
                      /\ SESS'[c] = With(old, [last_county |-> Title(x.c_guess),
                                               last_eta |-> delivery_eta_text(x.c_guess),
                                               state |-> "await_name"])
                /\ (x.c_guess # None /\ was \in {None, "await_confirm"}) => fired
                /\ was \in OWN_INPUT => ~fired]_vars

\* a county name arrived in await_confirm, with name and phone already given:
\* the shortcut answered and the session is back in await_name
C33_Witness ==
    \E w \in Handlers :
        /\ thr[w].pc = "reply"
        /\ Parsed[thr[w].text].c_guess # None
        /\ thr[w].was = "await_confirm"
        /\ thr[w].reply = Reply("county_eta_ask_name")
        /\ St(SESS[thr[w].from]) = "await_name"
        /\ "customer_phone" \in DOMAIN SESS[thr[w].from]

\* C34: the order store changes only when a confirmation stores its order and
\* sweeps.  Right after that step no stored order is older than the retention
\* window, every other order that was stored and is not older than the window
\* is still stored unchanged, every older one is gone, and the order just
\* confirmed is stored; it is still stored when its request ends.
C34_SweepAtConfirmation ==
    [][LET Age(o) == now - o.created_at_utc
           Sweeps(w) == thr[w].pc = "mail" /\ thr'[w].pc = "upload"
       IN /\ INVOICES' # INVOICES => \E w \in Handlers : Sweeps(w)
          /\ \A w \in Handlers :
                Sweeps(w) =>
                    /\ \A oid \in DOMAIN INVOICES' : Age(INVOICES'[oid]) <= WINDOW_S
                    /\ \A oid \in DOMAIN INVOICES \ {thr[w].order.id} :
                          IF Age(INVOICES[oid]) <= WINDOW_S
                          THEN oid \in DOMAIN INVOICES' /\ INVOICES'[oid] = INVOICES[oid]
                          ELSE oid \notin DOMAIN INVOICES'
                    /\ thr[w].order.id \in DOMAIN INVOICES'
                    /\ INVOICES'[thr[w].order.id] = thr[w].order
          /\ \A w \in Handlers :
                (thr[w].pc = "reply" /\ HoldsOrder(w) /\ thr'[w].pc = "idle") =>
                    thr[w].order.id \in DOMAIN INVOICES]_vars

\* a second confirmation, made exactly one window after the first: the first
\* order, as old as the window, was kept by the sweep, beside the new one
C34_Witness ==
    \E w \in Handlers :
        /\ thr[w].pc = "upload"
        /\ thr[w].order.created_at_utc = WINDOW_S
        /\ thr[w].order.id \in DOMAIN INVOICES
        /\ new_order_id(0) \in DOMAIN INVOICES
        /\ INVOICES[new_order_id(0)].created_at_utc = 0

\* C35: a retrieval of an order id that is not in the order store, because it
\* was never issued or because the sweep evicted it, is answered not-found.
C35_EvictedIsNotFound ==
    \A w \in Handlers :
        (thr[w].pc = "served" /\ thr[w].order_id \notin DOMAIN INVOICES) =>
            thr[w].response = "not_found"

\* C36: in await_confirm a text that is neither the confirmation, nor an edit
\* request, nor a cancel word leaves the session in await_confirm with the
\* collected name, phone, product, county and estimate unchanged.
C36_ConfirmPhaseKeepsDetails ==
    [][\A w \in Handlers :
          LET x == Parsed[thr'[w].text]
              c == thr'[w].from
          IN (Starts(w) /\ thr'[w].was = "await_confirm" /\ ~x.confirm /\ ~x.edit /\ ~x.cancel) =>
                /\ St(SESS'[c]) = "await_confirm"
                /\ SameCollected(SESS[c], SESS'[c])]_vars

\* C37: in cancel_confirm a text that is neither a yes nor a no, a repeated
\* cancel word included, leaves the session as it is: still cancel_confirm,
\* with the same phase to return to and the same collected fields.
C37_CancelPhaseWaits ==
    [][\A w \in Handlers :
          LET x == Parsed[thr'[w].text]
              c == thr'[w].from
          IN (Starts(w) /\ thr'[w].was = "cancel_confirm" /\ ~x.yes /\ ~x.no) =>
                /\ St(SESS'[c]) = "cancel_confirm"
                /\ Get(SESS'[c], "prev_state", None) = Get(SESS[c], "prev_state", None)
                /\ SameCollected(SESS[c], SESS'[c])]_vars

\* C38: every phase that has a handler can be entered; in particular some
\* transition enters await_county: a session is in it, or some message, sent
\* in some other phase (with or without collected details, whatever phase a
\* pending cancellation would return to), moves the session into it.
C38_AwaitCountyEntered ==
    LET Full == [state |-> None, page |-> 1, customer_name |-> "Jane Wanjiku",
                 customer_phone |-> "0712345678", last_county |-> "Nairobi", last_eta |-> "same day",
                 last_product |-> find_by_capacity(528)]
        ELSEWHERE == PHASES \ {"await_county"}
        Sessions == {With(base, [state |-> p]) : base \in {Fresh, Full}, p \in ELSEWHERE}
                    \cup {With(base, [state |-> "cancel_confirm", prev_state |-> p]) :
                             base \in {Fresh, Full}, p \in ELSEWHERE \cap CANCELLABLE}
    IN \/ \E c \in DOMAIN SESS : St(SESS[c]) = "await_county"
       \/ \E text \in AllTexts, sess \in Sessions :
             St(brain_reply(Parsed[text], sess).sess) = "await_county"

\* C39: an Idle session is a cleared one: it holds no name, phone, product,
\* county, estimate or phase to return to, and its page cursor is 1.
C39_IdleIsCleared ==
    \A c \in DOMAIN SESS :
        St(SESS[c]) = None =>
            /\ DOMAIN SESS[c] \cap (COLLECTED \cup {"prev_state"}) = {}
            /\ SESS[c]["page"] = 1

\* C40: a confirmation stores its order, under the order's id, before it sends
\* any message that carries the invoice link: after the store-and-sweep step
\* the order is in the store, and when the cascade sends the document by
\* link or the link as text the order is stored as made, so that a retrieval
\* of that id at that moment, whatever the cached file does, is not answered
\* not-found.
C40_StoredBeforeLinkSent ==
    [][\A w \in Handlers :
          LET o == thr[w].order
              sent == thr'[w].sent
              response(read_ok, render_ok) ==
                  IF o.id \in tmp_pdf /\ read_ok THEN "cached"
                  ELSE IF o.id \notin DOMAIN INVOICES THEN "not_found"
                  ELSE IF render_ok THEN "rendered" ELSE "error"
          IN /\ (thr[w].pc = "mail" /\ thr'[w].pc = "upload") =>
                    o.id \in DOMAIN INVOICES' /\ INVOICES'[o.id] = o
             /\ (thr[w].pc = "upload" /\ thr'[w].pc = "reply"
                    /\ \E i \in 1..Len(sent) : sent[i] \in {"link", "text"}) =>
                    /\ o.id \in DOMAIN INVOICES /\ INVOICES[o.id] = o
                    /\ INVOICES' = INVOICES
                    /\ \A read_ok, render_ok \in BOOLEAN : response(read_ok, render_ok) # "not_found"]_vars

\* the PDF could not be written and the upload failed: the document went out
\* by link, which only the stored order can answer
C40_Witness ==
    \E w \in Handlers :
        /\ thr[w].pc = "reply" /\ "sent" \in DOMAIN thr[w]
        /\ thr[w].sent = <<"upload", "link">>
        /\ thr[w].order.id \notin tmp_pdf
        /\ thr[w].order.id \in DOMAIN INVOICES

====
